---- MODULE Spec2Model ----
(***************************************************************************)
(* A model of the LOLCODE-markup to HTML compiler of src/src/main.rs: the  *)
(* lexer (LolLexer), the token cursor and the recursive-descent parser and *)
(* emitter (LolCompiler).  Characters are one-element strings, and every   *)
(* Rust String (a token, the HTML buffer) is a sequence of characters.     *)
(***************************************************************************)
EXTENDS Integers, Sequences, FiniteSets, TLC

VARIABLES
    source,          \* the text handed to compile / tokenize
    chars,           \* LolLexer.chars
    position,        \* LolLexer.position
    current_lexeme,  \* LolLexer.current_lexeme
    lex_tokens,      \* the local `tokens` of tokenize
    returned,        \* the values returned by the calls of tokenize so far
    tokens,          \* LolCompiler.tokens
    current_index,   \* LolCompiler.current_index
    current,         \* LolCompiler.current
    variables,       \* LolCompiler.variables
    html_output,     \* LolCompiler.html_output
    var_name,        \* the local var_name of parse_variable_define / _use
    text,            \* the local title_text / var_value being collected
    stack,           \* return positions of the productions being executed
    pc,              \* position in the code
    err,             \* <<kind, detail>> of the diagnostic printed before exit(1)
    out_file,        \* what compile wrote to the .html file, if anything
    ret,             \* the operation the cursor specification called last, and its result;
                     \* in the case specification, the second source and the first outcome
    history          \* what the parser did: the VarDefines completed, in order

lexer_vars  == <<chars, position, current_lexeme, lex_tokens, returned>>
cursor_vars == <<tokens, current_index, current>>
parser_vars == <<variables, html_output, var_name, text, stack>>
vars == <<source, lexer_vars, cursor_vars, parser_vars, pc, err, out_file, ret, history>>

----------------------------------------------------------------------------
(* Characters *)

UpperLetters == <<"A", "B", "C", "D", "E", "F", "G", "H", "I", "J", "K", "L", "M", "N", "O", "P", "Q", "R", "S", "T", "U", "V", "W", "X", "Y", "Z">>
LowerLetters == <<"a", "b", "c", "d", "e", "f", "g", "h", "i", "j", "k", "l", "m", "n", "o", "p", "q", "r", "s", "t", "u", "v", "w", "x", "y", "z">>
Digits == {"0", "1", "2", "3", "4", "5", "6", "7", "8", "9"}

\* A character outside ASCII (e with acute accent).
NonAscii == "U+00E9"
\* Form feed: ASCII, white space for str::trim, not for the lexer.
FormFeed == "U+000C"

Range(s) == {s[i] : i \in 1..Len(s)}

is_ascii(c) == c # NonAscii

AsciiAlphanumerics == Range(UpperLetters) \cup Range(LowerLetters) \cup Digits

is_ascii_alphanumeric(c) == c \in AsciiAlphanumerics

\* the capital of each small ASCII letter
upper_map ==
    [c \in Range(LowerLetters) |->
        UpperLetters[CHOOSE i \in 1..26 : LowerLetters[i] = c]]

\* char::to_ascii_uppercase
to_ascii_uppercase(c) == IF c \in DOMAIN upper_map THEN upper_map[c] ELSE c

\* a comparison that tells capitals from small letters
eq_exact(a, b) == a = b

\* str::eq_ignore_ascii_case
eq_ignore_ascii_case(a, b) ==
    /\ Len(a) = Len(b)
    /\ \A i \in 1..Len(a) : to_ascii_uppercase(a[i]) = to_ascii_uppercase(b[i])

\* str::to_uppercase, on the characters of the model (the accented letter
\* maps to its capital, which is no ASCII letter either).
to_uppercase(s) ==
    [i \in 1..Len(s) |-> IF s[i] = NonAscii THEN "U+00C9" ELSE to_ascii_uppercase(s[i])]

\* char::is_whitespace, as str::trim uses it
is_unicode_whitespace(c) == c \in {" ", "\t", "\n", "\r", FormFeed}

RECURSIVE trim_start(_)
trim_start(s) ==
    IF s # <<>> /\ is_unicode_whitespace(Head(s)) THEN trim_start(Tail(s)) ELSE s

RECURSIVE trim_end(_)
trim_end(s) ==
    IF s # <<>> /\ is_unicode_whitespace(s[Len(s)])
    THEN trim_end(SubSeq(s, 1, Len(s) - 1))
    ELSE s

\* str::trim
trim(s) == trim_end(trim_start(s))

starts_with(s, p) == Len(s) >= Len(p) /\ SubSeq(s, 1, Len(p)) = p

ends_with(s, p) == Len(s) >= Len(p) /\ SubSeq(s, Len(s) - Len(p) + 1, Len(s)) = p

----------------------------------------------------------------------------
(* Keywords *)

K_HAI == <<"#", "H", "A", "I">>
K_KTHXBYE == <<"#", "K", "T", "H", "X", "B", "Y", "E">>
K_OBTW == <<"#", "O", "B", "T", "W">>
K_TLDR == <<"#", "T", "L", "D", "R">>
K_MAEK == <<"#", "M", "A", "E", "K">>
K_OIC == <<"#", "O", "I", "C">>
K_GIMMEH == <<"#", "G", "I", "M", "M", "E", "H">>
K_MKAY == <<"#", "M", "K", "A", "Y">>
K_LEMME == <<"#", "L", "E", "M", "M", "E">>
K_I == <<"#", "I">>
K_HAZ == <<"H", "A", "Z">>
K_IT == <<"#", "I", "T">>
K_IZ == <<"I", "Z">>
K_HEAD == <<"H", "E", "A", "D">>
K_TITLE == <<"T", "I", "T", "L", "E">>
K_BOLD == <<"B", "O", "L", "D">>
K_ITALICS == <<"I", "T", "A", "L", "I", "C", "S">>
K_NEWLINE == <<"N", "E", "W", "L", "I", "N", "E">>
K_SOUNDZ == <<"S", "O", "U", "N", "D", "Z">>
K_VIDZ == <<"V", "I", "D", "Z">>
K_PARAGRAF == <<"P", "A", "R", "A", "G", "R", "A", "F">>
K_LIST == <<"L", "I", "S", "T">>
K_ITEM == <<"I", "T", "E", "M">>
K_SEE == <<"S", "E", "E">>

\* the array `valid` of lookup
valid ==
    <<K_HAI, K_KTHXBYE, K_OBTW, K_TLDR, K_MAEK, K_OIC, K_GIMMEH, K_MKAY, K_LEMME,
      K_I, K_HAZ, K_IT, K_IZ, K_HEAD, K_TITLE, K_BOLD, K_ITALICS, K_NEWLINE, K_SOUNDZ,
      K_VIDZ, K_PARAGRAF, K_LIST, K_ITEM, K_SEE>>

S_http == <<"h", "t", "t", "p">>

----------------------------------------------------------------------------
(* The lexer *)

\* an is_whitespace that knows the space only
is_whitespace_space_only(c) == c = " "

is_whitespace(c) == c \in {" ", "\t", "\n", "\r"}

is_special(c) == c = "#"

lookup(s) == \E i \in 1..Len(valid) : eq_ignore_ascii_case(valid[i], s)

\* the characters the inner loop of tokenize adds to a special token
is_url_char(c) ==
    is_ascii_alphanumeric(c) \/ c \in {":", "/", ".", "?", "=", "&", "-", "%"}

\* the inner loop of tokenize: [token, position] when it breaks
RECURSIVE special_run(_, _, _)
special_run(cs, pos, token) ==
    IF pos < Len(cs) /\ is_url_char(cs[pos + 1])
    THEN special_run(cs, pos + 1, Append(token, cs[pos + 1]))
    ELSE [token |-> token, position |-> pos]

\* the test with its second negation lost
invalid_special_no_not(token) == ~lookup(token) /\ starts_with(token, S_http)

\* the test that sends a special token to the lexical error
invalid_special(token) == ~lookup(token) /\ ~starts_with(token, S_http)

\* A lexer in the middle of tokenize:
\* [chars, position, current_lexeme, tokens, status, bad], status "scan" while
\* the outer loop runs, "ok" once tokenize returned, "exit" after exit(1).
new_lexer ==
    [chars |-> <<>>, position |-> 0, current_lexeme |-> <<>>,
     tokens |-> <<>>, status |-> "new", bad |-> <<>>]

\* the first three statements of tokenize
tokenize_enter(L, src) ==
    [L EXCEPT !.chars = src, !.position = 0, !.tokens = <<>>, !.status = "scan",
              !.bad = <<>>]

\* the branch of the outer loop for a white space character
tokenize_whitespace(L) ==
    IF L.current_lexeme # <<>>
    THEN [L EXCEPT !.position = L.position + 1,
                   !.tokens = Append(L.tokens, L.current_lexeme),
                   !.current_lexeme = <<>>]
    ELSE [L EXCEPT !.position = L.position + 1]

\* the branch of the outer loop for '#'
tokenize_special(L) ==
    LET flushed == IF L.current_lexeme # <<>>
                   THEN Append(L.tokens, L.current_lexeme)
                   ELSE L.tokens
        run == special_run(L.chars, L.position + 1, <<L.chars[L.position + 1]>>)
    IN  IF invalid_special(run.token)
        THEN [L EXCEPT !.position = run.position, !.tokens = flushed,
                       !.current_lexeme = <<>>, !.status = "exit",
                       !.bad = run.token]
        ELSE [L EXCEPT !.position = run.position,
                       !.tokens = Append(flushed, run.token),
                       !.current_lexeme = <<>>]

\* the branch of the outer loop for any other character: add_char
tokenize_other(L) ==
    [L EXCEPT !.position = L.position + 1,
              !.current_lexeme = Append(L.current_lexeme, L.chars[L.position + 1])]

\* the statements after the outer loop
tokenize_return(L) ==
    [L EXCEPT !.tokens = IF L.current_lexeme # <<>>
                         THEN Append(L.tokens, L.current_lexeme)
                         ELSE L.tokens,
              !.status = "ok"]

\* one turn of the outer loop, get_char included
tokenize_iter(L) ==
    IF L.position >= Len(L.chars) THEN tokenize_return(L)
    ELSE LET c == L.chars[L.position + 1]
         IN  IF is_whitespace(c) THEN tokenize_whitespace(L)
             ELSE IF is_special(c) THEN tokenize_special(L)
             ELSE tokenize_other(L)

\* n turns of the outer loop, or fewer if tokenize ends before (evaluated
\* by halves, M bound to the lexer after the first half)
RECURSIVE tokenize_turns(_, _)
tokenize_turns(L, n) ==
    IF n = 0 \/ L.status # "scan" THEN L
    ELSE IF n = 1 THEN tokenize_iter(L)
    ELSE CHOOSE R \in {tokenize_turns(M, n - (n \div 2)) :
                          M \in {tokenize_turns(L, n \div 2)}} : TRUE

\* the outer loop, up to the return or the exit: every turn but the last
\* takes at least one character
tokenize_loop(L) == tokenize_turns(L, Len(L.chars) + 1)

\* tokenize(source) on the lexer L: the lexer when the call ends
tokenize(L, src) == tokenize_loop(tokenize_enter(L, src))

----------------------------------------------------------------------------
(* The fragments the parser writes *)

S_title_open ==
    <<"<", "h", "t", "m", "l", ">", "<", "h", "e", "a", "d", ">", "<", "t", "i",
    "t", "l", "e", ">">>

S_title_close ==
    <<"<", "/", "t", "i", "t", "l", "e", ">", "<", "/", "h", "e", "a", "d", ">",
    "<", "b", "o", "d", "y", ">", "\n">>

S_body_close ==
    <<"<", "/", "b", "o", "d", "y", ">", "<", "/", "h", "t", "m", "l", ">">>

S_p_open ==
    <<"<", "p", ">">>

S_p_close ==
    <<"<", "/", "p", ">", "\n">>

S_b_open ==
    <<"<", "b", ">">>

S_b_close ==
    <<"<", "/", "b", ">">>

S_i_open ==
    <<"<", "i", ">">>

S_i_close ==
    <<"<", "/", "i", ">">>

S_br ==
    <<"<", "b", "r", "/", ">", "\n">>

S_audio_open ==
    <<"<", "a", "u", "d", "i", "o", " ", "c", "o", "n", "t", "r", "o", "l", "s",
    ">", "\n", " ", " ", "<", "s", "o", "u", "r", "c", "e", " ", "s", "r", "c",
    "=", "\"">>

S_audio_close ==
    <<"\"", " ", "t", "y", "p", "e", "=", "\"", "a", "u", "d", "i", "o", "/",
    "m", "p", "e", "g", "\"", ">", "\n", "<", "/", "a", "u", "d", "i", "o", ">",
    "\n">>

S_video_open ==
    <<"<", "v", "i", "d", "e", "o", " ", "c", "o", "n", "t", "r", "o", "l", "s",
    ">", "\n", " ", " ", "<", "s", "o", "u", "r", "c", "e", " ", "s", "r", "c",
    "=", "\"">>

S_video_close ==
    <<"\"", " ", "t", "y", "p", "e", "=", "\"", "v", "i", "d", "e", "o", "/",
    "m", "p", "4", "\"", ">", "\n", "<", "/", "v", "i", "d", "e", "o", ">",
    "\n">>

\* the punctuation array of parse_text
punctuation == {<<".">>, <<",">>, <<"!">>, <<"?">>}

----------------------------------------------------------------------------
(* Bounds of the model *)

\* the most body items a generated program has
MaxItems == 3
\* the most turns a collecting loop (title, comment, variable value) is
\* followed for once the token stream is exhausted
MaxSpin == 2
\* the most calls of tokenize on one lexer
MaxCalls == 2
\* the most pieces a source of the lexer specification is made of
MaxPieces == 3
\* the longest token sequence of the cursor specification
MaxTokens == 3

----------------------------------------------------------------------------
(* The token cursor *)

\* a next_token that starts again at the first token after the last
next_token_wrapping ==
    /\ current_index' = IF current_index + 1 < Len(tokens)
                        THEN current_index + 1 ELSE 0
    /\ current' = IF current_index + 1 < Len(tokens)
                  THEN tokens[current_index + 2] ELSE tokens[1]
    /\ UNCHANGED tokens

\* next_token without its else branch
next_token_no_else ==
    /\ current_index' = IF current_index + 1 < Len(tokens)
                        THEN current_index + 1 ELSE current_index
    /\ current' = IF current_index + 1 < Len(tokens)
                  THEN tokens[current_index + 2] ELSE current
    /\ UNCHANGED tokens

\* next_token: the cursor after the call (it returns current')
next_token ==
    /\ current_index' = IF current_index + 1 < Len(tokens)
                        THEN current_index + 1 ELSE current_index
    /\ current' = IF current_index + 1 < Len(tokens)
                  THEN tokens[current_index + 2] ELSE <<>>
    /\ UNCHANGED tokens

\* a current_token that reads the token sequence at the position instead of
\* the field `current`
current_token_at_index ==
    IF tokens = <<>> THEN <<>> ELSE tokens[current_index + 1]

\* current_token
current_token == current

\* error that prints the diagnostic and returns to compile instead of
\* ending the process
error_no_exit(kind, detail) ==
    /\ pc' = "write"
    /\ err' = <<kind, detail>>

\* LolCompiler::error: the diagnostic, then process::exit(1)
error(kind, detail) ==
    /\ pc' = "exit"
    /\ err' = <<kind, detail>>

\* match_token(expected), continuing at ok_pc
match_token(expected, ok_pc) ==
    IF eq_ignore_ascii_case(current_token, expected)
    THEN /\ next_token
         /\ pc' = ok_pc
         /\ UNCHANGED err
    ELSE /\ error("Expected", <<expected, current_token>>)
         /\ UNCHANGED cursor_vars

\* a push_str that replaces the buffer by s
push_str_replacing(s) == html_output' = s

\* html_output.push_str(s)
push_str(s) == html_output' = html_output \o s

\* a call of a production: continue at ret_pc when it returns
call(entry, ret_pc) ==
    /\ pc' = entry
    /\ stack' = <<ret_pc>> \o stack

\* the return of a production
return ==
    /\ pc' = Head(stack)
    /\ stack' = Tail(stack)

\* the step ended in process::exit(1): nothing after it is executed
exited == pc' = "exit"

----------------------------------------------------------------------------
(* compile *)

\* compile without the test for an empty token sequence
compile_unchecked ==
    /\ pc = "compile"
    /\ LET L == tokenize(new_lexer, source)
       IN  IF L.status = "exit"
           THEN /\ pc' = "exit"
                /\ err' = <<"LexicalError", L.bad>>
                /\ UNCHANGED <<cursor_vars, stack>>
           ELSE /\ tokens' = L.tokens
                /\ current_index' = 0
                /\ current' = IF L.tokens = <<>> THEN <<>> ELSE L.tokens[1]
                /\ call("lolcode", "write")
                /\ UNCHANGED err
    /\ UNCHANGED <<source, history, lexer_vars, variables, html_output, var_name, text,
                   out_file, ret>>

\* compile, up to the call of parse.  The lexer is a local of compile, made
\* by LolLexer::new and dropped with it: tokenize runs on new_lexer, and the
\* lexer variables of the model are left to the lexer specification.
compile ==
    /\ pc = "compile"
    /\ LET L == tokenize(new_lexer, source)
       IN  IF L.status = "exit"
           THEN /\ pc' = "exit"
                /\ err' = <<"LexicalError", L.bad>>
                /\ UNCHANGED <<cursor_vars, stack>>
           ELSE /\ tokens' = L.tokens
                /\ IF L.tokens = <<>>
                   THEN /\ error("EmptyInput", <<>>)
                        /\ UNCHANGED <<current_index, current, stack>>
                   ELSE /\ current_index' = 0
                        /\ current' = L.tokens[1]
                        /\ call("lolcode", "write")
                        /\ UNCHANGED err
    /\ UNCHANGED <<source, history, lexer_vars, variables, html_output, var_name, text,
                   out_file, ret>>

\* compile, after parse returned: the file is written
compile_write ==
    /\ pc = "write"
    /\ out_file' = <<html_output>>
    /\ pc' = "done"
    /\ UNCHANGED <<source, history, lexer_vars, cursor_vars, parser_vars, err, ret>>

----------------------------------------------------------------------------
(* parse_lolcode *)

parse_lolcode_hai ==
    /\ pc = "lolcode"
    /\ match_token(K_HAI, "lolcode_comments")
    /\ UNCHANGED <<source, history, lexer_vars, parser_vars, out_file, ret>>

parse_lolcode_comments ==
    /\ pc = "lolcode_comments"
    /\ IF eq_ignore_ascii_case(current_token, K_OBTW)
       THEN call("comment", "lolcode_comments")
       ELSE call("head", "lolcode_body")
    /\ UNCHANGED <<source, history, lexer_vars, cursor_vars, variables, html_output,
                   var_name, text, err, out_file, ret>>

parse_lolcode_body ==
    /\ pc = "lolcode_body"
    /\ call("body", "lolcode_kthxbye")
    /\ UNCHANGED <<source, history, lexer_vars, cursor_vars, variables, html_output,
                   var_name, text, err, out_file, ret>>

parse_lolcode_kthxbye ==
    /\ pc = "lolcode_kthxbye"
    /\ match_token(K_KTHXBYE, Head(stack))
    /\ stack' = IF exited THEN stack ELSE Tail(stack)
    /\ UNCHANGED <<source, history, lexer_vars, variables, html_output, var_name, text,
                   out_file, ret>>

----------------------------------------------------------------------------
(* parse_head *)

parse_head ==
    /\ pc = "head"
    /\ IF eq_ignore_ascii_case(current_token, K_MAEK)
       THEN /\ match_token(K_MAEK, "head_HEAD")
            /\ UNCHANGED stack
       ELSE /\ return
            /\ UNCHANGED <<cursor_vars, err>>
    /\ UNCHANGED <<source, history, lexer_vars, variables, html_output, var_name, text,
                   out_file, ret>>

parse_head_HEAD ==
    /\ pc = "head_HEAD"
    /\ match_token(K_HEAD, "head_loop")
    /\ UNCHANGED <<source, history, lexer_vars, parser_vars, out_file, ret>>

\* the test of the while loop of parse_head and the test inside it
parse_head_loop ==
    /\ pc = "head_loop"
    /\ IF eq_ignore_ascii_case(current_token, K_OIC)
       THEN /\ pc' = "head_OIC"
            /\ UNCHANGED stack
       ELSE IF eq_ignore_ascii_case(current_token, K_GIMMEH)
       THEN call("title", "head_loop")
       ELSE /\ pc' = "head_skip"
            /\ UNCHANGED stack
    /\ UNCHANGED <<source, history, lexer_vars, cursor_vars, variables, html_output,
                   var_name, text, err, out_file, ret>>

\* an else branch that writes the token as parse_text would
parse_head_skip_as_text ==
    /\ pc = "head_skip"
    /\ push_str(current_token \o <<" ">>)
    /\ next_token
    /\ pc' = "head_loop"
    /\ UNCHANGED <<source, history, lexer_vars, variables, var_name, text, stack, err,
                   out_file, ret>>

\* the else branch of the loop of parse_head
parse_head_skip ==
    /\ pc = "head_skip"
    /\ next_token
    /\ pc' = "head_loop"
    /\ UNCHANGED <<source, history, lexer_vars, parser_vars, err, out_file, ret>>

parse_head_OIC ==
    /\ pc = "head_OIC"
    /\ match_token(K_OIC, Head(stack))
    /\ stack' = IF exited THEN stack ELSE Tail(stack)
    /\ UNCHANGED <<source, history, lexer_vars, variables, html_output, var_name, text,
                   out_file, ret>>

----------------------------------------------------------------------------
(* parse_title *)

parse_title ==
    /\ pc = "title"
    /\ match_token(K_GIMMEH, "title_TITLE")
    /\ UNCHANGED <<source, history, lexer_vars, parser_vars, out_file, ret>>

parse_title_TITLE ==
    /\ pc = "title_TITLE"
    /\ match_token(K_TITLE, "title_loop")
    /\ text' = IF exited THEN text ELSE <<>>
    /\ UNCHANGED <<source, history, lexer_vars, variables, html_output, var_name, stack,
                   out_file, ret>>

\* the test of a loop that collects the tokens up to a closing keyword
\* (the loops of parse_title, parse_comment and parse_variable_define)
collect_test(closing, push_pc, exit_pc) ==
    /\ pc' = IF ~eq_ignore_ascii_case(current_token, closing)
             THEN push_pc ELSE exit_pc

\* the text after push_str(&self.current_token()); push(' ').  Once the
\* token stream is exhausted the loop only adds spaces to the end of a text
\* that it never uses again: the model stops counting them at MaxSpin.
pushed(collected, token) ==
    IF token = <<>> /\ Len(collected) - Len(trim_end(collected)) > MaxSpin
    THEN collected
    ELSE collected \o token \o <<" ">>

\* the body of such a loop
collect_push(loop_pc) ==
    /\ text' = pushed(text, current_token)
    /\ next_token
    /\ pc' = loop_pc

parse_title_loop ==
    /\ pc = "title_loop"
    /\ collect_test(K_MKAY, "title_push", "title_MKAY")
    /\ UNCHANGED <<source, history, lexer_vars, cursor_vars, parser_vars, err,
                   out_file, ret>>

parse_title_push ==
    /\ pc = "title_push"
    /\ collect_push("title_loop")
    /\ UNCHANGED <<source, history, lexer_vars, variables, html_output, var_name,
                   stack, err, out_file, ret>>

\* the title without the opening of the document
title_html_no_open(title_text) ==
    <<"<", "t", "i", "t", "l", "e", ">">> \o trim(title_text) \o S_title_close

\* the title as parse_title formats it
title_html(title_text) == S_title_open \o trim(title_text) \o S_title_close

parse_title_MKAY ==
    /\ pc = "title_MKAY"
    /\ match_token(K_MKAY, Head(stack))
    /\ stack' = IF exited THEN stack ELSE Tail(stack)
    /\ IF exited THEN UNCHANGED html_output ELSE push_str(title_html(text))
    /\ UNCHANGED <<source, history, lexer_vars, variables, var_name, text, out_file, ret>>

----------------------------------------------------------------------------
(* parse_comment *)

parse_comment ==
    /\ pc = "comment"
    /\ match_token(K_OBTW, "comment_loop")
    /\ text' = IF exited THEN text ELSE <<>>
    /\ UNCHANGED <<source, history, lexer_vars, variables, html_output, var_name, stack,
                   out_file, ret>>

parse_comment_loop ==
    /\ pc = "comment_loop"
    /\ collect_test(K_TLDR, "comment_push", "comment_TLDR")
    /\ UNCHANGED <<source, history, lexer_vars, cursor_vars, parser_vars, err,
                   out_file, ret>>

parse_comment_push ==
    /\ pc = "comment_push"
    /\ collect_push("comment_loop")
    /\ UNCHANGED <<source, history, lexer_vars, variables, html_output, var_name,
                   stack, err, out_file, ret>>

parse_comment_TLDR ==
    /\ pc = "comment_TLDR"
    /\ match_token(K_TLDR, Head(stack))
    /\ stack' = IF exited THEN stack ELSE Tail(stack)
    /\ UNCHANGED <<source, history, lexer_vars, variables, html_output, var_name, text,
                   out_file, ret>>

----------------------------------------------------------------------------
(* parse_body *)

\* the loop of parse_body and, when it ends, the rest of parse_body
parse_body ==
    /\ pc = "body"
    /\ IF ~eq_ignore_ascii_case(current_token, K_KTHXBYE) /\ current_token # <<>>
       THEN /\ LET up == to_uppercase(current_token)
               IN  IF up = K_MAEK THEN call("paragraph", "body")
                   ELSE IF up = K_GIMMEH THEN call("inner_text", "body")
                   ELSE IF up = K_LEMME THEN call("variable_use", "body")
                   ELSE IF up = K_I THEN call("variable_define", "body")
                   ELSE call("text", "body")
            /\ UNCHANGED html_output
       ELSE /\ push_str(S_body_close)
            /\ return
    /\ UNCHANGED <<source, history, lexer_vars, cursor_vars, variables, var_name, text,
                   err, out_file, ret>>

----------------------------------------------------------------------------
(* parse_paragraph, parse_inner_paragraph *)

parse_paragraph ==
    /\ pc = "paragraph"
    /\ match_token(K_MAEK, "paragraph_PARAGRAF")
    /\ UNCHANGED <<source, history, lexer_vars, parser_vars, out_file, ret>>

\* match PARAGRAF, write <p>, call parse_inner_paragraph
parse_paragraph_PARAGRAF ==
    /\ pc = "paragraph_PARAGRAF"
    /\ match_token(K_PARAGRAF, "inner_paragraph")
    /\ IF exited THEN UNCHANGED html_output ELSE push_str(S_p_open)
    /\ UNCHANGED <<source, history, lexer_vars, variables, var_name, text, stack,
                   out_file, ret>>

\* the loop of parse_inner_paragraph; when it ends, parse_paragraph writes </p>
parse_inner_paragraph ==
    /\ pc = "inner_paragraph"
    /\ IF ~eq_ignore_ascii_case(current_token, K_OIC) /\ current_token # <<>>
       THEN /\ call("inner_text", "inner_paragraph")
            /\ UNCHANGED html_output
       ELSE /\ push_str(S_p_close)
            /\ pc' = "paragraph_OIC"
            /\ UNCHANGED stack
    /\ UNCHANGED <<source, history, lexer_vars, cursor_vars, variables, var_name, text,
                   err, out_file, ret>>

parse_paragraph_OIC ==
    /\ pc = "paragraph_OIC"
    /\ match_token(K_OIC, Head(stack))
    /\ stack' = IF exited THEN stack ELSE Tail(stack)
    /\ UNCHANGED <<source, history, lexer_vars, variables, html_output, var_name, text,
                   out_file, ret>>

----------------------------------------------------------------------------
(* parse_inner_text *)

\* the outer match of parse_inner_text; the productions it calls return to
\* the caller of parse_inner_text
parse_inner_text ==
    /\ pc = "inner_text"
    /\ LET up == to_uppercase(current_token)
       IN  IF up = K_GIMMEH
           THEN /\ next_token
                /\ pc' = "inner_text_gimmeh"
           ELSE /\ pc' = IF up = K_LEMME THEN "variable_use"
                         ELSE IF up = K_I THEN "variable_define"
                         ELSE "text"
                /\ UNCHANGED cursor_vars
    /\ UNCHANGED <<source, history, lexer_vars, parser_vars, err, out_file, ret>>

\* the inner match of parse_inner_text
parse_inner_text_gimmeh ==
    /\ pc = "inner_text_gimmeh"
    /\ LET up == to_uppercase(current_token)
       IN  IF up = K_BOLD THEN pc' = "bold" /\ UNCHANGED err
           ELSE IF up = K_ITALICS THEN pc' = "italics" /\ UNCHANGED err
           ELSE IF up = K_NEWLINE THEN pc' = "newline" /\ UNCHANGED err
           ELSE IF up = K_SOUNDZ THEN pc' = "audio" /\ UNCHANGED err
           ELSE IF up = K_VIDZ THEN pc' = "video" /\ UNCHANGED err
           ELSE error("UnknownGimmeh", current_token)
    /\ UNCHANGED <<source, history, lexer_vars, cursor_vars, parser_vars, out_file, ret>>

----------------------------------------------------------------------------
(* parse_variable_define *)

parse_variable_define ==
    /\ pc = "variable_define"
    /\ match_token(K_I, "define_HAZ")
    /\ UNCHANGED <<source, history, lexer_vars, parser_vars, out_file, ret>>

parse_variable_define_HAZ ==
    /\ pc = "define_HAZ"
    /\ match_token(K_HAZ, "define_name")
    /\ UNCHANGED <<source, history, lexer_vars, parser_vars, out_file, ret>>

\* let var_name = self.current_token(); self.next_token();
parse_variable_define_name ==
    /\ pc = "define_name"
    /\ var_name' = current_token
    /\ next_token
    /\ pc' = "define_IT"
    /\ UNCHANGED <<source, history, lexer_vars, variables, html_output, text, stack, err,
                   out_file, ret>>

parse_variable_define_IT ==
    /\ pc = "define_IT"
    /\ match_token(K_IT, "define_IZ")
    /\ UNCHANGED <<source, history, lexer_vars, parser_vars, out_file, ret>>

\* (history: the index of the token after IZ)
parse_variable_define_IZ ==
    /\ pc = "define_IZ"
    /\ match_token(K_IZ, "define_loop")
    /\ text' = IF exited THEN text ELSE <<>>
    /\ history' = [history EXCEPT !.from = current_index']
    /\ UNCHANGED <<source, lexer_vars, variables, html_output, var_name, stack,
                   out_file, ret>>

parse_variable_define_loop ==
    /\ pc = "define_loop"
    /\ collect_test(K_MKAY, "define_push", "define_insert")
    /\ UNCHANGED <<source, history, lexer_vars, cursor_vars, parser_vars, err,
                   out_file, ret>>

parse_variable_define_push ==
    /\ pc = "define_push"
    /\ collect_push("define_loop")
    /\ UNCHANGED <<source, history, lexer_vars, variables, html_output, var_name,
                   stack, err, out_file, ret>>

\* an insert that keeps the value a key already has
insert_if_absent(map, key, value) ==
    [k \in DOMAIN map \cup {key} |-> IF k \in DOMAIN map THEN map[k] ELSE value]

\* HashMap::insert
insert(map, key, value) ==
    [k \in DOMAIN map \cup {key} |-> IF k = key THEN value ELSE map[k]]

\* the value parse_variable_define stores
stored_value(var_value) == trim(var_value)

\* self.variables.insert(..); self.match_token("#MKAY");
\* (history: the VarDefine that ends at this #MKAY)
parse_variable_define_insert ==
    /\ pc = "define_insert"
    /\ variables' = insert(variables, var_name, stored_value(text))
    /\ match_token(K_MKAY, Head(stack))
    /\ stack' = IF exited THEN stack ELSE Tail(stack)
    /\ history' = [history EXCEPT
                      !.defs = Append(@, [from |-> history.from, to |-> current_index])]
    /\ UNCHANGED <<source, lexer_vars, html_output, var_name, text, out_file, ret>>

----------------------------------------------------------------------------
(* parse_variable_use *)

parse_variable_use ==
    /\ pc = "variable_use"
    /\ match_token(K_LEMME, "use_SEE")
    /\ UNCHANGED <<source, history, lexer_vars, parser_vars, out_file, ret>>

parse_variable_use_SEE ==
    /\ pc = "use_SEE"
    /\ match_token(K_SEE, "use_name")
    /\ UNCHANGED <<source, history, lexer_vars, parser_vars, out_file, ret>>

parse_variable_use_name ==
    /\ pc = "use_name"
    /\ var_name' = current_token
    /\ next_token
    /\ pc' = "use_MKAY"
    /\ UNCHANGED <<source, history, lexer_vars, variables, html_output, text, stack, err,
                   out_file, ret>>

parse_variable_use_MKAY ==
    /\ pc = "use_MKAY"
    /\ match_token(K_MKAY, "use_get")
    /\ UNCHANGED <<source, history, lexer_vars, parser_vars, out_file, ret>>

\* the lookup of parse_variable_use and what follows it
parse_variable_use_get ==
    /\ pc = "use_get"
    /\ IF var_name \in DOMAIN variables
       THEN /\ push_str(variables[var_name] \o <<" ">>)
            /\ return
            /\ UNCHANGED err
       ELSE /\ error("UndefinedVariable", var_name)
            /\ UNCHANGED <<html_output, stack>>
    /\ UNCHANGED <<source, history, lexer_vars, cursor_vars, variables, var_name, text,
                   out_file, ret>>

----------------------------------------------------------------------------
(* parse_bold, parse_italics *)

\* match the keyword and write the opening tag
format_open(keyword, open_tag, loop_pc) ==
    /\ match_token(keyword, loop_pc)
    /\ IF exited THEN UNCHANGED html_output ELSE push_str(open_tag)
    /\ UNCHANGED <<source, history, lexer_vars, variables, var_name, text, stack,
                   out_file, ret>>

\* what the loop of parse_bold / parse_italics writes for a token
format_token(token) == token \o <<" ">>

\* one turn of the loop of parse_bold / parse_italics
format_loop(exit_pc) ==
    /\ IF ~eq_ignore_ascii_case(current_token, K_MKAY) /\ current_token # <<>>
       THEN /\ push_str(format_token(current_token))
            /\ next_token
            /\ UNCHANGED pc
       ELSE /\ pc' = exit_pc
            /\ UNCHANGED <<html_output, cursor_vars>>
    /\ UNCHANGED <<source, history, lexer_vars, variables, var_name, text, stack, err,
                   out_file, ret>>

\* match #MKAY and return without writing the closing tag
format_close_no_tag(close_tag) ==
    /\ match_token(K_MKAY, Head(stack))
    /\ stack' = IF exited THEN stack ELSE Tail(stack)
    /\ UNCHANGED <<source, history, lexer_vars, variables, html_output, var_name, text,
                   out_file, ret>>

\* match #MKAY, write the closing tag, return
format_close(close_tag) ==
    /\ match_token(K_MKAY, Head(stack))
    /\ stack' = IF exited THEN stack ELSE Tail(stack)
    /\ IF exited THEN UNCHANGED html_output ELSE push_str(close_tag)
    /\ UNCHANGED <<source, history, lexer_vars, variables, var_name, text, out_file, ret>>

parse_bold ==
    /\ pc = "bold"
    /\ format_open(K_BOLD, S_b_open, "bold_loop")

parse_bold_loop ==
    /\ pc = "bold_loop"
    /\ format_loop("bold_MKAY")

parse_bold_MKAY ==
    /\ pc = "bold_MKAY"
    /\ format_close(S_b_close)

parse_italics ==
    /\ pc = "italics"
    /\ format_open(K_ITALICS, S_i_open, "italics_loop")

parse_italics_loop ==
    /\ pc = "italics_loop"
    /\ format_loop("italics_MKAY")

parse_italics_MKAY ==
    /\ pc = "italics_MKAY"
    /\ format_close(S_i_close)

----------------------------------------------------------------------------
(* parse_audio, parse_video, parse_newline *)

\* match the keyword; let address = self.current_token(); self.next_token();
\* (the address is kept where the model keeps var_name)
media_open(keyword, addr_pc) ==
    /\ match_token(keyword, addr_pc)
    /\ UNCHANGED <<source, history, lexer_vars, parser_vars, out_file, ret>>

media_address(close_pc) ==
    /\ var_name' = current_token
    /\ next_token
    /\ pc' = close_pc
    /\ UNCHANGED <<source, history, lexer_vars, variables, html_output, text, stack, err,
                   out_file, ret>>

media_close(open_tag, close_tag) ==
    /\ match_token(K_MKAY, Head(stack))
    /\ stack' = IF exited THEN stack ELSE Tail(stack)
    /\ IF exited THEN UNCHANGED html_output
       ELSE push_str(open_tag \o var_name \o close_tag)
    /\ UNCHANGED <<source, history, lexer_vars, variables, var_name, text, out_file, ret>>

parse_audio ==
    /\ pc = "audio"
    /\ media_open(K_SOUNDZ, "audio_address")

parse_audio_address ==
    /\ pc = "audio_address"
    /\ media_address("audio_MKAY")

parse_audio_MKAY ==
    /\ pc = "audio_MKAY"
    /\ media_close(S_audio_open, S_audio_close)

parse_video ==
    /\ pc = "video"
    /\ media_open(K_VIDZ, "video_address")

parse_video_address ==
    /\ pc = "video_address"
    /\ media_address("video_MKAY")

parse_video_MKAY ==
    /\ pc = "video_MKAY"
    /\ media_close(S_video_open, S_video_close)

parse_newline ==
    /\ pc = "newline"
    /\ match_token(K_NEWLINE, Head(stack))
    /\ stack' = IF exited THEN stack ELSE Tail(stack)
    /\ IF exited THEN UNCHANGED html_output ELSE push_str(S_br)
    /\ UNCHANGED <<source, history, lexer_vars, variables, var_name, text, out_file, ret>>

----------------------------------------------------------------------------
(* parse_text *)

\* the test of parse_text
is_text(token) ==
    /\ ~starts_with(token, <<"#">>)
    /\ \A i \in 1..Len(token) : is_ascii(token[i])

\* what parse_text writes for a token
text_html(token) == IF token \in punctuation THEN token ELSE token \o <<" ">>

parse_text ==
    /\ pc = "text"
    /\ IF is_text(current_token)
       THEN /\ push_str(text_html(current_token))
            /\ next_token
            /\ return
            /\ UNCHANGED err
       ELSE /\ error("ExpectedText", current_token)
            /\ UNCHANGED <<html_output, cursor_vars, stack>>
    /\ UNCHANGED <<source, history, lexer_vars, variables, var_name, text, out_file, ret>>

----------------------------------------------------------------------------
(* The sources compile is run on *)

W_a == <<"a">>
W_b == <<"b">>
W_bang == <<"!">>
W_accent == <<NonAscii>>
W_feed == <<FormFeed, "a">>
W_x == <<"x">>
W_X == <<"X">>
W_FOO == <<"#", "F", "O", "O">>
k_hai == <<"#", "h", "a", "i">>
k_maek == <<"#", "m", "a", "e", "k">>
k_paragraf == <<"p", "a", "r", "a", "g", "r", "a", "f">>
k_Bold == <<"B", "o", "l", "d">>

DefineXab == <<K_I, K_HAZ, W_x, K_IT, K_IZ, W_a, W_b, K_MKAY>>
DefineXbang == <<K_I, K_HAZ, W_x, K_IT, K_IZ, W_bang, K_MKAY>>
UseX == <<K_LEMME, K_SEE, W_x, K_MKAY>>
UseUpperX == <<K_LEMME, K_SEE, W_X, K_MKAY>>
ParagraphBold == <<K_MAEK, K_PARAGRAF, W_a, K_GIMMEH, K_BOLD, W_a, W_bang, K_MKAY, K_OIC>>

\* the items bodies of several items are made of
CoreItems == {<<W_a>>, DefineXab, DefineXbang, UseX, ParagraphBold}

\* the items a body of one item is made of
Items ==
    CoreItems \cup
    { <<W_bang>>,
      UseUpperX,
      <<W_accent>>,
      <<W_FOO>>,
      <<K_MAEK, K_PARAGRAF, UseX[1], UseX[2], UseX[3], UseX[4], K_OIC>>,
      <<k_maek, k_paragraf, W_a, K_OIC>>,
      <<K_GIMMEH, k_Bold, W_a, K_MKAY>>,
      <<K_GIMMEH, K_BOLD, K_HAI, K_MKAY>>,
      <<K_GIMMEH, K_ITALICS, W_bang, W_a, K_MKAY>>,
      <<K_GIMMEH, K_NEWLINE>>,
      <<K_GIMMEH, K_SOUNDZ, W_a, K_MKAY>>,
      <<K_GIMMEH, K_VIDZ, W_a, K_MKAY>>,
      <<K_GIMMEH, W_a>>,
      <<K_MAEK, K_PARAGRAF, K_GIMMEH, K_NEWLINE, DefineXab[1], DefineXab[2],
        DefineXab[3], DefineXab[4], DefineXab[5], W_a, K_MKAY, K_OIC>> }

CommentA == <<K_OBTW, W_a, K_TLDR>>
CommentDefine == <<K_OBTW>> \o DefineXab \o <<K_TLDR>>
HeadEmpty == <<K_MAEK, K_HEAD, K_OIC>>
HeadTitle == <<K_MAEK, K_HEAD, K_GIMMEH, K_TITLE, W_a, W_b, K_MKAY, K_OIC>>
HeadJunkTitle == <<K_MAEK, K_HEAD, W_a, K_GIMMEH, K_TITLE, W_feed, K_MKAY, W_b, K_OIC>>
HeadUse == <<K_MAEK, K_HEAD>> \o UseX \o <<K_OIC>>

CommentParagraph == <<K_OBTW, K_MAEK, K_PARAGRAF, W_a, K_OIC, K_TLDR>>
HeadDefine == <<K_MAEK, K_HEAD>> \o DefineXab \o <<K_OIC>>

\* what stands between #HAI and the body
Openings ==
    { <<>>, CommentA, CommentA \o CommentA \o HeadEmpty, CommentDefine,
      HeadEmpty, HeadTitle, HeadJunkTitle, HeadUse, CommentA \o HeadTitle,
      CommentParagraph, HeadDefine, CommentDefine \o HeadUse }

Endings == {<<K_KTHXBYE>>, <<K_KTHXBYE, W_a>>}

RECURSIVE CoreBodies(_)
CoreBodies(n) ==
    IF n = 0 THEN {<<>>}
    ELSE LET shorter == CoreBodies(n - 1)
         IN  shorter \cup {b \o i : b \in shorter, i \in CoreItems}

W_My == <<"M", "y">>
W_Page == <<"P", "a", "g", "e">>
W_Hello == <<"H", "e", "l", "l", "o">>
W_world == <<"w", "o", "r", "l", "d">>

\* programs of a Head with a Title of plain words and a Body of plain words
ScenarioTitles == {<<>>, <<W_My, W_Page>>, <<W_feed>>, <<W_a, W_feed>>}

ScenarioBodies == {<<>>, <<W_Hello, W_world>>, <<W_feed, W_a>>}

ScenarioPrograms ==
    {<<K_HAI, K_MAEK, K_HEAD, K_GIMMEH, K_TITLE>> \o t \o <<K_MKAY, K_OIC>>
        \o w \o <<K_KTHXBYE>> : t \in ScenarioTitles, w \in ScenarioBodies}

FullPrograms ==
    {<<K_HAI>> \o o \o b \o e :
        o \in Openings, b \in {<<>>} \cup Items, e \in Endings}
    \cup {<<K_HAI>> \o b \o <<K_KTHXBYE>> : b \in CoreBodies(MaxItems)}
    \cup {<<k_hai>> \o HeadTitle \o <<W_a>> \o <<K_KTHXBYE>>}
    \cup ScenarioPrograms

\* every program and every program cut short
Programs == UNION {{SubSeq(p, 1, n) : n \in 0..Len(p)} : p \in FullPrograms}

RECURSIVE Join(_)
\* the tokens, one space between two
Join(ts) ==
    IF ts = <<>> THEN <<>>
    ELSE IF Len(ts) = 1 THEN ts[1]
    ELSE ts[1] \o <<" ">> \o Join(Tail(ts))

Sources == {Join(p) : p \in Programs} \cup {<<" ", "\n">>, <<"\t", "\r">>}

----------------------------------------------------------------------------
(* The compiler: compile on a source *)

Init ==
    /\ source \in Sources
    /\ chars = <<>>
    /\ position = 0
    /\ current_lexeme = <<>>
    /\ lex_tokens = <<>>
    /\ returned = <<>>
    /\ tokens = <<>>
    /\ current_index = 0
    /\ current = <<>>
    /\ variables = <<>>
    /\ html_output = <<>>
    /\ var_name = <<>>
    /\ text = <<>>
    /\ stack = <<>>
    /\ pc = "compile"
    /\ err = <<>>
    /\ out_file = <<>>
    /\ ret = <<>>
    /\ history = [from |-> 0, defs |-> <<>>]

Next ==
    \/ compile
    \/ compile_write
    \/ parse_lolcode_hai
    \/ parse_lolcode_comments
    \/ parse_lolcode_body
    \/ parse_lolcode_kthxbye
    \/ parse_head
    \/ parse_head_HEAD
    \/ parse_head_loop
    \/ parse_head_skip
    \/ parse_head_OIC
    \/ parse_title
    \/ parse_title_TITLE
    \/ parse_title_loop
    \/ parse_title_push
    \/ parse_title_MKAY
    \/ parse_comment
    \/ parse_comment_loop
    \/ parse_comment_push
    \/ parse_comment_TLDR
    \/ parse_body
    \/ parse_paragraph
    \/ parse_paragraph_PARAGRAF
    \/ parse_inner_paragraph
    \/ parse_paragraph_OIC
    \/ parse_inner_text
    \/ parse_inner_text_gimmeh
    \/ parse_variable_define
    \/ parse_variable_define_HAZ
    \/ parse_variable_define_name
    \/ parse_variable_define_IT
    \/ parse_variable_define_IZ
    \/ parse_variable_define_loop
    \/ parse_variable_define_push
    \/ parse_variable_define_insert
    \/ parse_variable_use
    \/ parse_variable_use_SEE
    \/ parse_variable_use_name
    \/ parse_variable_use_MKAY
    \/ parse_variable_use_get
    \/ parse_bold
    \/ parse_bold_loop
    \/ parse_bold_MKAY
    \/ parse_italics
    \/ parse_italics_loop
    \/ parse_italics_MKAY
    \/ parse_audio
    \/ parse_audio_address
    \/ parse_audio_MKAY
    \/ parse_video
    \/ parse_video_address
    \/ parse_video_MKAY
    \/ parse_newline
    \/ parse_text

Spec == Init /\ [][Next]_vars

\* the program is one sequential thread: a step that can be taken is taken
FairSpec == Spec /\ WF_vars(Next)

----------------------------------------------------------------------------
(* The lexer on its own: tokenize called on one LolLexer, step by step *)

\* the lexer of the model as tokenize sees it
this_lexer ==
    [chars |-> chars, position |-> position, current_lexeme |-> current_lexeme,
     tokens |-> lex_tokens, status |-> "scan", bad |-> <<>>]

\* the lexer of the model becomes L
becomes(L) ==
    /\ chars' = L.chars
    /\ position' = L.position
    /\ current_lexeme' = L.current_lexeme
    /\ lex_tokens' = L.tokens

\* what the lexer specification leaves alone
lex_frame == UNCHANGED <<source, history, cursor_vars, parser_vars, out_file, ret>>

\* tokenize is called (again) on the source
tokenize_call ==
    /\ pc \in {"lex_new", "lex_returned"}
    /\ Len(returned) < MaxCalls
    /\ becomes(tokenize_enter(this_lexer, source))
    /\ pc' = "lex_scan"
    /\ UNCHANGED <<returned, err>>
    /\ lex_frame

lex_whitespace ==
    /\ pc = "lex_scan"
    /\ position < Len(chars)
    /\ is_whitespace(chars[position + 1])
    /\ becomes(tokenize_iter(this_lexer))
    /\ UNCHANGED <<returned, pc, err>>
    /\ lex_frame

lex_special ==
    /\ pc = "lex_scan"
    /\ position < Len(chars)
    /\ ~is_whitespace(chars[position + 1])
    /\ is_special(chars[position + 1])
    /\ LET L == tokenize_iter(this_lexer)
       IN  /\ becomes(L)
           /\ IF L.status = "exit"
              THEN /\ pc' = "exit"
                   /\ err' = <<"LexicalError", L.bad>>
              ELSE UNCHANGED <<pc, err>>
    /\ UNCHANGED returned
    /\ lex_frame

lex_other ==
    /\ pc = "lex_scan"
    /\ position < Len(chars)
    /\ ~is_whitespace(chars[position + 1])
    /\ ~is_special(chars[position + 1])
    /\ becomes(tokenize_iter(this_lexer))
    /\ UNCHANGED <<returned, pc, err>>
    /\ lex_frame

lex_return ==
    /\ pc = "lex_scan"
    /\ position >= Len(chars)
    /\ LET L == tokenize_iter(this_lexer)
       IN  /\ becomes(L)
           /\ returned' = Append(returned, L.tokens)
    /\ pc' = "lex_returned"
    /\ UNCHANGED err
    /\ lex_frame

\* the pieces the sources of the lexer specification are made of
LexPieces ==
    { <<" ">>, <<"\n">>, <<"#">>, <<"I">>, <<"t">>, <<"a">>, <<".">>,
      <<"#", "h", "t", "t", "p", ":">>, <<"#", "o", "i", "c">>, <<FormFeed>> }

RECURSIVE LexSources(_)
LexSources(n) ==
    IF n = 0 THEN {<<>>}
    ELSE LET shorter == LexSources(n - 1)
         IN  shorter \cup {s \o q : s \in shorter, q \in LexPieces}

InitLex ==
    /\ source \in LexSources(MaxPieces)
    /\ chars = new_lexer.chars
    /\ position = new_lexer.position
    /\ current_lexeme = new_lexer.current_lexeme
    /\ lex_tokens = <<>>
    /\ returned = <<>>
    /\ tokens = <<>>
    /\ current_index = 0
    /\ current = <<>>
    /\ variables = <<>>
    /\ html_output = <<>>
    /\ var_name = <<>>
    /\ text = <<>>
    /\ stack = <<>>
    /\ pc = "lex_new"
    /\ err = <<>>
    /\ out_file = <<>>
    /\ ret = <<>>
    /\ history = [from |-> 0, defs |-> <<>>]

NextLex ==
    \/ tokenize_call
    \/ lex_whitespace
    \/ lex_special
    \/ lex_other
    \/ lex_return

SpecLex == InitLex /\ [][NextLex]_vars

----------------------------------------------------------------------------
(* The token cursor on its own: the operations of the Compiler trait *)

CursorTokens == {K_HAI, W_a, K_KTHXBYE}

RECURSIVE TokenSeqs(_)
TokenSeqs(n) ==
    IF n = 0 THEN {<<>>}
    ELSE LET shorter == TokenSeqs(n - 1)
         IN  shorter \cup {s \o <<t>> : s \in shorter, t \in CursorTokens}

cursor_frame ==
    UNCHANGED <<source, history, lexer_vars, parser_vars, pc, err, out_file>>

\* a call of next_token
call_next_token ==
    /\ pc = "cursor"
    /\ next_token
    /\ ret' = <<"next_token", current'>>
    /\ cursor_frame

\* a call of current_token
call_current_token ==
    /\ pc = "cursor"
    /\ ret' = <<"current_token", current_token>>
    /\ UNCHANGED cursor_vars
    /\ cursor_frame

\* set_current_token(tok)
set_current_token(tok) ==
    /\ current' = tok
    /\ UNCHANGED <<tokens, current_index>>

\* a call of set_current_token
call_set_current_token ==
    /\ pc = "cursor"
    /\ \E tok \in CursorTokens \cup {<<>>} :
          /\ set_current_token(tok)
          /\ ret' = <<"set_current_token", tok>>
    /\ cursor_frame

\* a compiler as LolCompiler::new makes it, or as compile leaves it before
\* it calls parse
InitCursor ==
    /\ tokens \in TokenSeqs(MaxTokens)
    /\ current_index = 0
    /\ current = IF tokens = <<>> THEN <<>> ELSE tokens[1]
    /\ source = <<>>
    /\ chars = <<>>
    /\ position = 0
    /\ current_lexeme = <<>>
    /\ lex_tokens = <<>>
    /\ returned = <<>>
    /\ variables = <<>>
    /\ html_output = <<>>
    /\ var_name = <<>>
    /\ text = <<>>
    /\ stack = <<>>
    /\ pc = "cursor"
    /\ err = <<>>
    /\ out_file = <<>>
    /\ ret = <<>>
    /\ history = [from |-> 0, defs |-> <<>>]

NextCursor ==
    \/ call_next_token
    \/ call_current_token
    \/ call_set_current_token

SpecCursor == InitCursor /\ [][NextCursor]_vars

----------------------------------------------------------------------------
(* The compiler run on two sources that differ in the letter case of one    *)
(* token: the program is started on the first and, when that process ended, *)
(* started again on the second                                              *)

\* the small letter of each capital ASCII letter
lower_map ==
    [c \in Range(UpperLetters) |->
        LowerLetters[CHOOSE i \in 1..26 : UpperLetters[i] = c]]

\* the token in small letters
Lowered(token) ==
    [i \in 1..Len(token) |->
        IF token[i] \in DOMAIN lower_map THEN lower_map[token[i]] ELSE token[i]]

\* the token with every second letter small
Mixed(token) ==
    [i \in 1..Len(token) |->
        IF i % 2 = 0 /\ token[i] \in DOMAIN lower_map
        THEN lower_map[token[i]] ELSE token[i]]

W_A == <<"A">>

\* a token and the role it has in its program: a keyword the parser matches,
\* a text token that reaches the buffer, a variable name, or a discarded token
Kw(token) == <<token, "keyword">>
Tx(token) == <<token, "text">>
Nm(token) == <<token, "name">>
Dc(token) == <<token, "discarded">>

\* a program that takes the parser through every production
CaseProgramFull ==
    << Kw(K_HAI), Kw(K_OBTW), Dc(W_A), Kw(K_TLDR),
       Kw(K_MAEK), Kw(K_HEAD), Dc(W_A),
       Kw(K_GIMMEH), Kw(K_TITLE), Tx(W_A), Kw(K_MKAY), Kw(K_OIC),
       Kw(K_MAEK), Kw(K_PARAGRAF),
       Kw(K_I), Kw(K_HAZ), Nm(W_X), Kw(K_IT), Kw(K_IZ), Tx(W_A), Kw(K_MKAY),
       Kw(K_LEMME), Kw(K_SEE), Nm(W_X), Kw(K_MKAY),
       Kw(K_GIMMEH), Kw(K_BOLD), Tx(W_A), Kw(K_MKAY),
       Kw(K_GIMMEH), Kw(K_ITALICS), Tx(W_A), Kw(K_MKAY),
       Kw(K_GIMMEH), Kw(K_NEWLINE), Kw(K_OIC),
       Kw(K_GIMMEH), Kw(K_SOUNDZ), Tx(W_A), Kw(K_MKAY),
       Kw(K_GIMMEH), Kw(K_VIDZ), Tx(W_A), Kw(K_MKAY),
       Tx(W_A), Kw(K_KTHXBYE) >>

\* programs the parser rejects
CaseProgramNoHead ==
    << Kw(K_HAI), Kw(K_MAEK), Kw(K_PARAGRAF), Tx(W_A), Kw(K_OIC), Kw(K_KTHXBYE) >>

CaseProgramUnknown ==
    << Kw(K_HAI), Tx(W_A), Kw(K_GIMMEH), Kw(K_TITLE), Kw(K_KTHXBYE) >>

CasePrograms == {CaseProgramFull, CaseProgramNoHead, CaseProgramUnknown}

\* the tokens of a program
TokensOf(P) == [i \in 1..Len(P) |-> P[i][1]]

\* the program with token i replaced by t
WithToken(P, i, t) == [j \in 1..Len(P) |-> IF j = i THEN t ELSE P[j][1]]

\* a program, one of its tokens that is not discarded, and the program with
\* that token in another letter case: [first, second, role]
CasePairsOf(P) ==
    UNION {
        { [first |-> Join(TokensOf(P)), second |-> Join(WithToken(P, i, t)),
           role |-> P[i][2]] :
             t \in {Lowered(P[i][1]), Mixed(P[i][1])} \ {P[i][1]} } :
        i \in {j \in 1..Len(P) : P[j][2] # "discarded"} }

InitCase ==
    /\ \E pair \in UNION {CasePairsOf(P) : P \in CasePrograms} :
          /\ source = pair.first
          /\ ret = <<"first", pair.role, pair.second>>
    /\ chars = <<>>
    /\ position = 0
    /\ current_lexeme = <<>>
    /\ lex_tokens = <<>>
    /\ returned = <<>>
    /\ tokens = <<>>
    /\ current_index = 0
    /\ current = <<>>
    /\ variables = <<>>
    /\ html_output = <<>>
    /\ var_name = <<>>
    /\ text = <<>>
    /\ stack = <<>>
    /\ pc = "compile"
    /\ err = <<>>
    /\ out_file = <<>>
    /\ history = [from |-> 0, defs |-> <<>>]

\* the process ended; the program is started on the second source, with a
\* compiler as LolCompiler::new makes it (ret keeps the first outcome)
compile_second ==
    /\ pc \in {"done", "exit"}
    /\ ret[1] = "first"
    /\ ret' = <<"second", ret[2],
                [pc |-> pc, err |-> err, html_output |-> html_output,
                 source |-> source]>>
    /\ source' = ret[3]
    /\ tokens' = <<>>
    /\ current_index' = 0
    /\ current' = <<>>
    /\ variables' = <<>>
    /\ html_output' = <<>>
    /\ var_name' = <<>>
    /\ text' = <<>>
    /\ stack' = <<>>
    /\ pc' = "compile"
    /\ err' = <<>>
    /\ out_file' = <<>>
    /\ history' = [from |-> 0, defs |-> <<>>]
    /\ UNCHANGED lexer_vars

NextCase ==
    \/ Next
    \/ compile_second

SpecCase == InitCase /\ [][NextCase]_vars

----------------------------------------------------------------------------
(* Properties *)

\* compile ended: the file is written, or the process exited with an error
Terminated == pc \in {"done", "exit"}

\* parse returned to compile without an error
Parsed == pc \in {"write", "done"}

\* C1: on every token sequence the parser eventually ends, with success or
\* with a fatal error, also when the tokens end inside a Comment, a Head, a
\* Title or a VarDefine.
C1_ParsingTerminates == <>Terminated

\* C2: a program whose first token after #HAI and the comments is #MAEK
\* followed by PARAGRAF has no Head, and the parser does not reject its
\* PARAGRAF for not being HEAD.
C2_HeadOptional ==
    ~(/\ pc = "exit"
      /\ err[1] = "Expected"
      /\ err[2][1] = K_HEAD
      /\ eq_ignore_ascii_case(err[2][2], K_PARAGRAF))

\* the keyword set of the specification
KeywordSet == {valid[i] : i \in 1..Len(valid)}

IsKeyword(token) == \E k \in KeywordSet : eq_ignore_ascii_case(k, token)

\* '#' and then a URL that starts with http
IsEmbeddedUrl(token) ==
    /\ starts_with(token, <<"#">>)
    /\ starts_with(Tail(token), S_http)

\* C3: a candidate special token that is a keyword, in any letter case, or
\* an embedded URL starting with http is accepted: the candidate of a
\* lexical error is neither.
C3_KeywordOrUrlAccepted ==
    (pc = "exit" /\ err[1] = "LexicalError")
        => ~(IsKeyword(err[2]) \/ IsEmbeddedUrl(err[2]))

\* C4: a second call of tokenize on the same lexer and the same source
\* returns what the first call returned.
C4_Repeatable ==
    \A i \in 1..Len(returned) : returned[i] = returned[1]

\* the tokens of a VarDefine that history recorded: its name, and its value
\* as the specification defines it
DefinedName(d) == tokens[d.from - 2]

RECURSIVE SpaceAfterEach(_)
SpaceAfterEach(ts) ==
    IF ts = <<>> THEN <<>> ELSE ts[1] \o <<" ">> \o SpaceAfterEach(Tail(ts))

DefinedValue(d) == trim(SpaceAfterEach(SubSeq(tokens, d.from + 1, d.to)))

\* the VarDefines of the name that completed so far
Definitions(name) ==
    {i \in 1..Len(history.defs) : DefinedName(history.defs[i]) = name}

Latest(S) == CHOOSE i \in S : \A j \in S : j <= i

\* C5: a VarUse of a name succeeds if and only if a VarDefine of exactly
\* that name completed before it; it then appends the value of the latest
\* such VarDefine and one space to the HTML buffer, and otherwise it is the
\* fatal error of an undefined variable.
C5_VarUse ==
    [][pc = "use_get" =>
        IF Definitions(var_name) = {}
        THEN /\ pc' = "exit"
             /\ err' = <<"UndefinedVariable", var_name>>
             /\ html_output' = html_output
        ELSE /\ pc' # "exit"
             /\ err' = err
             /\ html_output' = html_output
                    \o DefinedValue(history.defs[Latest(Definitions(var_name))])
                    \o <<" ">>]_vars

\* back in the body after the VarUse of a name that was defined twice, with
\* two values, the later of them written
C5_Witness ==
    /\ pc = "body"
    /\ current_index >= 3
    /\ eq_ignore_ascii_case(tokens[current_index], K_MKAY)
    /\ tokens[current_index - 1] = var_name
    /\ eq_ignore_ascii_case(tokens[current_index - 2], K_SEE)
    /\ \E i, j \in Definitions(var_name) :
          /\ i < j
          /\ DefinedValue(history.defs[i]) # DefinedValue(history.defs[j])
          /\ j = Latest(Definitions(var_name))
          /\ ends_with(html_output, DefinedValue(history.defs[j]) \o <<" ">>)

\* C6: a step that writes a plain token writes a punctuation token with no
\* space and any other plain token with one space after it, in parse_text
\* and in the loops of parse_bold and parse_italics.
C6_PunctuationSpacing ==
    [][(/\ pc \in {"text", "bold_loop", "italics_loop"}
        /\ is_text(current)
        /\ html_output' # html_output)
       => html_output' = html_output \o
             (IF current \in punctuation THEN current ELSE current \o <<" ">>)]_vars

\* the token parse_lolcode matched last, when parse has returned
LastMatched ==
    IF current = <<>> THEN tokens[current_index + 1] ELSE tokens[current_index]

\* C7: after a fatal error nothing is written to the file; what is written
\* is the buffer of a parse that matched #KTHXBYE.
C7_NoPartialOutput ==
    /\ pc = "exit" => out_file = <<>>
    /\ out_file # <<>> =>
          /\ err = <<>>
          /\ out_file = <<html_output>>
          /\ eq_ignore_ascii_case(LastMatched, K_KTHXBYE)

\* a fatal error after fragments were written to the buffer
C7_Witness ==
    /\ pc = "exit"
    /\ html_output # <<>>
    /\ out_file = <<>>

\* the index of the first token after the comments that start at token i
RECURSIVE AfterComments(_)
AfterComments(i) ==
    IF i <= Len(tokens) /\ eq_ignore_ascii_case(tokens[i], K_OBTW)
    THEN LET ends == {j \in i + 1..Len(tokens) :
                         eq_ignore_ascii_case(tokens[j], K_TLDR)}
         IN  IF ends = {} THEN Len(tokens) + 1
             ELSE AfterComments(1 + CHOOSE j \in ends : \A k \in ends : j <= k)
    ELSE i

\* the program has a Head and the Head has a Title: a #GIMMEH comes before
\* the first #OIC after HEAD
HasHeadTitle ==
    LET h == AfterComments(2)
    IN  /\ h + 1 <= Len(tokens)
        /\ eq_ignore_ascii_case(tokens[h], K_MAEK)
        /\ eq_ignore_ascii_case(tokens[h + 1], K_HEAD)
        /\ \E g \in h + 2..Len(tokens) :
              /\ eq_ignore_ascii_case(tokens[g], K_GIMMEH)
              /\ \A k \in h + 2..g - 1 : ~eq_ignore_ascii_case(tokens[k], K_OIC)

\* how often p occurs in s
Occurrences(s, p) ==
    Cardinality({i \in 1..Len(s) - Len(p) + 1 : SubSeq(s, i, i + Len(p) - 1) = p})

\* no token holds a '<'
NoMarkupInTokens ==
    \A i \in 1..Len(tokens) : \A j \in 1..Len(tokens[i]) : tokens[i][j] # "<"

\* C8: the buffer of a parsed program ends with </body></html>, written
\* once, and starts with <html><head><title> if the program has a Head with
\* a Title.
C8_DocumentFrame ==
    Parsed =>
        /\ ends_with(html_output, S_body_close)
        /\ NoMarkupInTokens => Occurrences(html_output, S_body_close) = 1
        /\ HasHeadTitle => starts_with(html_output, S_title_open)

\* a parsed program with a Head that has a Title
C8_Witness == pc = "done" /\ HasHeadTitle /\ out_file = <<html_output>>

\* C9: a token of a returned sequence that begins with '#' is a keyword, in
\* any letter case, or starts with http.
C9_SpecialTokens ==
    \A r \in 1..Len(returned) : \A i \in 1..Len(returned[r]) :
        starts_with(returned[r][i], <<"#">>) =>
            \/ IsKeyword(returned[r][i])
            \/ starts_with(returned[r][i], S_http)

\* tokenize returned a special token written in small letters
C9_Witness ==
    /\ pc = "lex_returned"
    /\ \E i \in 1..Len(returned[1]) : returned[1][i] = <<"#", "o", "i", "c">>

\* the cursor is exhausted: at the last token, the current token empty
Exhausted == current_index + 1 >= Len(tokens) /\ current = <<>>

\* C10: next_token moves to the next index when there is one and returns
\* that token; at the last token it makes the current token empty and returns
\* it; once exhausted it changes nothing; it raises no error.
C10_NextToken ==
    [][(ret' # <<>> /\ ret'[1] = "next_token") =>
        /\ ret'[2] = current'
        /\ tokens' = tokens
        /\ pc' = pc /\ err' = err
        /\ IF current_index + 1 < Len(tokens)
           THEN /\ current_index' = current_index + 1
                /\ current' = tokens[current_index + 2]
           ELSE /\ current_index' = current_index
                /\ current' = <<>>
        /\ Exhausted => UNCHANGED cursor_vars]_vars

\* next_token was called at the last of several tokens
C10_Witness ==
    /\ ret = <<"next_token", <<>>>>
    /\ Len(tokens) >= 2
    /\ current_index = Len(tokens) - 1
    /\ Exhausted

\* C11: current_token changes nothing (position, current token, token
\* sequence, symbol table, HTML buffer) and returns the current token, the
\* empty token once the cursor is exhausted; set_current_token(t) makes t the
\* current token and changes nothing else.
C11_CursorFrame ==
    [][/\ (ret' # <<>> /\ ret'[1] = "current_token") =>
            /\ UNCHANGED <<current_index, current, tokens, variables, html_output>>
            /\ ret'[2] = current
            /\ Exhausted => ret'[2] = <<>>
       /\ (ret' # <<>> /\ ret'[1] = "set_current_token") =>
            /\ current' = ret'[2]
            /\ UNCHANGED <<current_index, tokens, variables, html_output>>]_vars

\* current_token was called on a cursor that next_token had moved past the
\* last of several tokens
C11_Witness ==
    /\ ret = <<"current_token", <<>>>>
    /\ Len(tokens) >= 2
    /\ current_index = Len(tokens) - 1
    /\ tokens[current_index + 1] # <<>>
    /\ Exhausted

\* C12: the HTML buffer is append-only: in every step of every production
\* the buffer before the step is a prefix of the buffer after it.
C12_AppendOnly == [][starts_with(html_output', html_output)]_vars

\* a program was parsed whose buffer was written by parse_title, by
\* parse_paragraph, by parse_bold and by parse_body
C12_Witness ==
    /\ pc = "done"
    /\ starts_with(html_output, S_title_open)
    /\ Occurrences(html_output, S_p_open) = 1
    /\ Occurrences(html_output, S_b_close) = 1
    /\ ends_with(html_output, S_body_close)

\* the second compile ended, and the first compile ended as `first`
SecondEnded == Terminated /\ ret # <<>> /\ ret[1] = "second"

\* C13: a source and the same source with one matched keyword in another
\* letter case compile alike: both succeed or both fail, and with the same
\* HTML buffer.  Text and variable names are case-sensitive: another letter
\* case of a text token changes the buffer of a successful compile, and
\* another letter case of one occurrence of a variable name makes its use an
\* undefined variable.
C13_KeywordCase ==
    SecondEnded =>
        LET first == ret[3]
        IN  /\ ret[2] = "keyword" =>
                  /\ pc = first.pc
                  /\ html_output = first.html_output
            /\ ret[2] = "text" =>
                  /\ pc = first.pc
                  /\ pc = "done" => html_output # first.html_output
            /\ (ret[2] = "name" /\ first.pc = "done") =>
                  /\ pc = "exit"
                  /\ err[1] = "UndefinedVariable"

\* both compiles succeeded, the second on a source whose #KTHXBYE is written
\* in another letter case, after every production had written to the buffer
C13_Witness ==
    /\ SecondEnded
    /\ pc = "done"
    /\ ret[2] = "keyword"
    /\ ret[3].pc = "done"
    /\ source # ret[3].source
    /\ ~ends_with(source, K_KTHXBYE)
    /\ ends_with(ret[3].source, K_KTHXBYE)
    /\ Occurrences(html_output, S_i_close) = 1
    /\ out_file = <<html_output>>

\* a plain token that is no punctuation: not empty, ASCII, no '#' in front
PlainWord(token) ==
    /\ token # <<>>
    /\ ~starts_with(token, <<"#">>)
    /\ \A i \in 1..Len(token) : is_ascii(token[i])
    /\ token \notin punctuation

\* k is the #MKAY of a program
\* #HAI #MAEK HEAD #GIMMEH TITLE t1 .. tn #MKAY #OIC w1 .. wm #KTHXBYE
ScenarioAt(k) ==
    LET n == Len(tokens)
    IN  /\ 6 <= k /\ k + 2 <= n
        /\ SubSeq(tokens, 1, 5) = <<K_HAI, K_MAEK, K_HEAD, K_GIMMEH, K_TITLE>>
        /\ tokens[k] = K_MKAY
        /\ tokens[k + 1] = K_OIC
        /\ tokens[n] = K_KTHXBYE
        /\ \A i \in 6..k - 1 : PlainWord(tokens[i])
        /\ \A i \in k + 2..n - 1 : PlainWord(tokens[i])

IsScenario == \E k \in 1..Len(tokens) : ScenarioAt(k)

\* the buffer the specification gives for such a program
ScenarioHtml ==
    LET k == CHOOSE j \in 1..Len(tokens) : ScenarioAt(j)
    IN  S_title_open \o Join(SubSeq(tokens, 6, k - 1)) \o S_title_close
            \o SpaceAfterEach(SubSeq(tokens, k + 2, Len(tokens) - 1))
            \o S_body_close

\* C14: a program #HAI #MAEK HEAD #GIMMEH TITLE t1 .. tn #MKAY #OIC w1 .. wm
\* #KTHXBYE of plain ASCII words that are no punctuation compiles, and its
\* buffer is <html><head><title>, the ti with one space between two,
\* </title></head><body> and a newline, every wj with one space after it, and
\* </body></html>.
C14_Scenario ==
    IsScenario =>
        /\ pc # "exit"
        /\ Parsed => html_output = ScenarioHtml

\* the white space of the specification
WhiteSpace == {" ", "\t", "\r", "\n"}

RECURSIVE Concat(_)
\* the tokens one after the other
Concat(ts) == IF ts = <<>> THEN <<>> ELSE Head(ts) \o Concat(Tail(ts))

\* the source without its white space
RECURSIVE WithoutWhiteSpace(_)
WithoutWhiteSpace(src) ==
    IF src = <<>> THEN <<>>
    ELSE IF Head(src) \in WhiteSpace THEN WithoutWhiteSpace(Tail(src))
    ELSE <<Head(src)>> \o WithoutWhiteSpace(Tail(src))

\* C15: when tokenize on a fresh lexer returned ts for the source, tokenize
\* on a fresh lexer returns ts for the tokens of ts with one space between
\* two; the tokens are the source from left to right, without its white
\* space; no token is empty or holds white space.
C15_RoundTrip ==
    Len(returned) >= 1 =>
        LET ts == returned[1]
            again == tokenize(new_lexer, Join(ts))
        IN  /\ again.status = "ok"
            /\ again.tokens = ts
            /\ Concat(ts) = WithoutWhiteSpace(source)
            /\ \A i \in 1..Len(ts) :
                  /\ ts[i] # <<>>
                  /\ \A j \in 1..Len(ts[i]) : ts[i][j] \notin WhiteSpace

\* tokenize returned a plain token and a keyword for a source that has them
\* on two lines, or has no white space between them
C15_Witness ==
    /\ pc = "lex_returned"
    /\ Len(returned) = 1
    /\ Len(returned[1]) >= 2
    /\ source # Join(returned[1])
    /\ \E i \in 1..Len(returned[1]) : returned[1][i] = <<"#", "o", "i", "c">>
    /\ \E i \in 1..Len(returned[1]) : returned[1][i] = <<"a">>

\* the source is empty or white space only: the lexer returns no token
NoTokens == \A i \in 1..Len(source) : source[i] \in WhiteSpace

\* C16: on a source without tokens compile ends in the fatal error of an
\* empty input before any production ran: the cursor, the symbol table and
\* the HTML buffer are as LolCompiler::new made them, and no file is written.
C16_EmptyInput ==
    (NoTokens /\ pc # "compile") =>
        /\ pc = "exit"
        /\ err = <<"EmptyInput", <<>>>>
        /\ tokens = <<>>
        /\ current_index = 0
        /\ current = <<>>
        /\ variables = <<>>
        /\ html_output = <<>>
        /\ stack = <<>>
        /\ out_file = <<>>

\* compile ended on a source of white space
C16_Witness ==
    /\ pc = "exit"
    /\ err = <<"EmptyInput", <<>>>>
    /\ source # <<>>
    /\ NoTokens

\* C17: between BOLD or ITALICS and the closing #MKAY only plain text tokens
\* are accepted: on a token that begins with '#' and is not #MKAY the loop
\* of parse_bold / parse_italics ends in a syntax error and writes nothing.
C17_FormatTextOnly ==
    [][(/\ pc \in {"bold_loop", "italics_loop"}
        /\ starts_with(current, <<"#">>)
        /\ ~eq_ignore_ascii_case(current, K_MKAY))
       => (pc' = "exit" /\ html_output' = html_output)]_vars

\* C18: when parse returned without an error the whole token sequence was
\* matched: the last token is the #KTHXBYE that parse_lolcode matched, and
\* the cursor is exhausted.
C18_WholeSequence ==
    Parsed =>
        /\ eq_ignore_ascii_case(tokens[Len(tokens)], K_KTHXBYE)
        /\ current_index = Len(tokens) - 1
        /\ Exhausted

\* the positions of the code inside parse_comment, and the else branch of
\* the loop of parse_head
DiscardingPcs ==
    {"comment", "comment_loop", "comment_push", "comment_TLDR", "head_skip"}

\* C19: a step of parse_comment, or a step that skips a token of the Head
\* that is not #GIMMEH, leaves the HTML buffer and the symbol table as they
\* are, whatever the tokens spell; the token sequence stays and the cursor
\* does not move back.
C19_DiscardedRegions ==
    [][(pc \in DiscardingPcs) =>
          (/\ UNCHANGED <<html_output, variables, tokens>>
           /\ current_index' >= current_index)]_vars

\* parse_head returned after a Comment that spells a VarDefine and a Head
\* that spells a VarUse: nothing is defined, nothing is written
C19_Witness ==
    /\ pc = "lolcode_body"
    /\ Len(tokens) >= 18
    /\ SubSeq(tokens, 2, 11) = CommentDefine
    /\ SubSeq(tokens, 12, 18) = HeadUse
    /\ variables = <<>>
    /\ html_output = <<>>

\* compile called parse: the lexer returned tokens, and there were some
Parsing ==
    /\ pc # "compile"
    /\ ~(pc = "exit" /\ err[1] \in {"LexicalError", "EmptyInput"})

\* C20: from the call of parse on, the token sequence is not empty and is
\* never changed, the cursor index is an index into it and never decreases,
\* and the current token is the token at the index or the empty token.
C20_NoBacktracking ==
    [][/\ Parsing' =>
            /\ tokens' # <<>>
            /\ 0 <= current_index' /\ current_index' < Len(tokens')
            /\ current' \in {tokens'[current_index' + 1], <<>>}
       /\ Parsing =>
            /\ tokens' = tokens
            /\ current_index' >= current_index]_vars

\* parse returned with the cursor moved over several tokens and exhausted
C20_Witness ==
    /\ pc = "write"
    /\ Len(tokens) >= 3
    /\ current_index = Len(tokens) - 1
    /\ current = <<>>

\* the closing tag of a paragraph, without the newline written after it
T_p_close == <<"<", "/", "p", ">">>

\* the fragment tag stands in the buffer at position i
TagAt(tag, i) ==
    /\ i + Len(tag) - 1 <= Len(html_output)
    /\ SubSeq(html_output, i, i + Len(tag) - 1) = tag

\* the positions of the buffer where a fragment of the set stands
TagPositions(tags) ==
    {i \in 1..Len(html_output) : \E tag \in tags : TagAt(tag, i)}

FormatTags == {S_b_open, S_b_close, S_i_open, S_i_close}
ParagraphTags == {S_p_open, T_p_close}
AllTags == FormatTags \cup ParagraphTags

\* the fragment of the set `among` that comes next after position i is
\* `tag`, and there is one
NextIs(i, among, tag) ==
    LET later == {j \in TagPositions(among) : j > i}
    IN  /\ later # {}
        /\ TagAt(tag, CHOOSE j \in later : \A k \in later : j <= k)

\* the fragment of the set `among` that comes last before position i is
\* `tag`, and there is one
PreviousIs(i, among, tag) ==
    LET earlier == {j \in TagPositions(among) : j < i}
    IN  /\ earlier # {}
        /\ TagAt(tag, CHOOSE j \in earlier : \A k \in earlier : j >= k)

\* C21: in the buffer of a parsed program whose tokens hold no markup, the
\* fragment after a <b> is its </b> and the fragment after an <i> is its
\* </i>, so that what a paragraph opens inside is closed before its </p>;
\* the paragraph fragment after a <p> is its </p>; and before every closing
\* fragment stands its opening fragment.
C21_BalancedTags ==
    (Parsed /\ NoMarkupInTokens) =>
        \A i \in TagPositions(AllTags) :
            /\ TagAt(S_b_open, i) => NextIs(i, AllTags, S_b_close)
            /\ TagAt(S_i_open, i) => NextIs(i, AllTags, S_i_close)
            /\ TagAt(S_p_open, i) => NextIs(i, ParagraphTags, T_p_close)
            /\ TagAt(S_b_close, i) => PreviousIs(i, AllTags, S_b_open)
            /\ TagAt(S_i_close, i) => PreviousIs(i, AllTags, S_i_open)
            /\ TagAt(T_p_close, i) => PreviousIs(i, ParagraphTags, S_p_open)

\* a parsed program with a bold text inside a paragraph
C21_Witness ==
    /\ pc = "done"
    /\ \E p \in TagPositions({S_p_open}) : \E b \in TagPositions({S_b_open}) :
          \E c \in TagPositions({S_b_close}) : \E q \in TagPositions({T_p_close}) :
              p < b /\ b < c /\ c < q

====
